---- MODULE Spec2Model ----
(***************************************************************************)
(* Model of the cla plugin (src/pkg/plugins/cla/cla.go): the status-event  *)
(* handler `handle` and the comment handler `handleComment`, each run as a *)
(* sequence of steps, one step per external call of the gitHubClient.      *)
(* The world (the labels and head commit of each pull request) lives in    *)
(* the external service; everything else is local to one invocation.       *)
(***************************************************************************)
EXTENDS Integers, Sequences, FiniteSets, TLC

VARIABLES
    labels,     \* world: labels[n] = the CLA labels pull request n carries
    head,       \* world: head[n] = head commit SHA of pull request n
    pc,         \* pc[p] = position of invocation p
    se,         \* se[p] = the github.StatusEvent handled by p
    e,          \* e[p] = the github.GenericCommentEvent handled by p
    i,          \* handle: the retry loop counter i (line 104)
    issues,     \* handle: the issues returned by the last FindIssues
    idx,        \* handle: position of the range loop of line 116 (1-based)
    hasYes,     \* hasCncfYes / hasCLAYes
    hasNo,      \* hasCncfNo / hasCLANo
    ref,        \* handleComment: pr.Head.SHA (line 212)
    combined,   \* handleComment: combined.Statuses (line 213)
    calls,      \* calls[p] = the external calls p has issued, in order
    ret         \* ret[p] = what the handler returned

vars == <<labels, head, pc, se, e, i, issues, idx, hasYes, hasNo, ref,
          combined, calls, ret>>

(***************************************************************************)
(* Program constants.                                                      *)
(***************************************************************************)
claContextName == "EasyCLA"
\* A bound of the search loop that is one too many.
maxRetriesOffByOne == 5 + 1
maxRetries == 5
ClaYes == "cncf-cla: yes"
ClaNo == "cncf-cla: no"
StatusPending == "pending"
StatusSuccess == "success"
StatusFailure == "failure"
StatusError == "error"
GenericCommentActionCreated == "created"

(***************************************************************************)
(* Bounds of the model.                                                    *)
(***************************************************************************)
MaxStatuses == 2

Procs == {1, 2}
SeqProcs == {1}
PRs == {1, 2}
SHAs == {"a", "b"}
Labels == {ClaYes, ClaNo}

\* All sequences over S of length at most n.
SeqUpTo(S, n) == UNION {[1..k -> S] : k \in 0..n}

\* Status events delivered by the webhook: any state and context, empty
\* strings included.
StatusEvents ==
    [State : {"", StatusPending, StatusSuccess, StatusFailure, StatusError},
     Context : {"", claContextName, "other"},
     SHA : SHAs]

\* A comment body is a sequence of tokens: "c" is the text /check-cla, "C" the
\* same text in another letter case, "s" a blank, "n" a line break, "x" any
\* other character.
Bodies ==
    {<<>>, <<"x">>, <<"c">>, <<"C">>, <<"c", "s">>, <<"s", "c">>,
     <<"c", "x">>, <<"x", "c">>, <<"x", "n", "c">>, <<"c", "n", "x">>,
     <<"c", "s", "x">>}

CommentEvents ==
    [IssueState : {"open", "closed"},
     Action : {GenericCommentActionCreated, "edited"},
     Body : Bodies,
     Number : PRs]

\* Entries of a combined status.
StatusEntries ==
    [Context : {claContextName}, State : {StatusPending, StatusSuccess, StatusFailure, StatusError}]
    \cup [Context : {"other"}, State : {StatusSuccess, StatusFailure}]

StatusLists == SeqUpTo(StatusEntries, MaxStatuses)

\* Answers of the search: open pull requests in any order, each once.
IssueLists == {<<>>, <<1>>, <<2>>, <<1, 2>>, <<2, 1>>}

NoEvent == [State |-> "", Context |-> "", SHA |-> ""]
NoComment == [IssueState |-> "", Action |-> "", Body |-> <<>>, Number |-> 0]

\* One external call: the method, the pull request it is about (for FindIssues:
\* the number of issues it answered), the label, and whether it succeeded.
Call(op, num, label, ok) == [op |-> op, num |-> num, label |-> label, ok |-> ok]

(***************************************************************************)
(* Decisions of handle.                                                    *)
(***************************************************************************)
\* A check of the event that joins its two tests with "and".
InvalidEventBothEmpty(ev) == ev.State = "" /\ ev.Context = ""

\* A check of the event that forgets the context.
InvalidEventStateOnly(ev) == ev.State = ""

\* line 84
InvalidEvent(ev) == ev.State = "" \/ ev.Context = ""

\* A handler that does not look at the context.
IgnoredPendingOnly(ev) == ev.State = StatusPending

\* lines 88 and 93: the events handle returns nil for before searching
Ignored(ev) == ev.Context # claContextName \/ ev.State = StatusPending

\* A search loop that stops only on more than one match.
FoundSeveral(found) == Len(found) > 1

\* line 109: the search loop stops on a non-empty answer
Found(found) == Len(found) > 0

\* lines 120 and 126: the label is up to date, nothing to update
UpToDate(y, n, state) ==
    \/ y /\ state = StatusSuccess
    \/ n /\ (state = StatusFailure \/ state = StatusError)

\* A handler that does not compare the head commit.
IsHeadUnchecked(prSHA, evSHA) == TRUE

\* line 140
IsHead(prSHA, evSHA) == prSHA = evSHA

\* A handler that forgets to remove the opposite label.
StatusRemovesNothing(y, n, state) == {}

\* lines 146-151 and 159-163: the labels handle removes
StatusRemoves(y, n, state) ==
    IF state = StatusSuccess
    THEN (IF n THEN {ClaNo} ELSE {})
    ELSE (IF y THEN {ClaYes} ELSE {})

\* lines 152 and 164: the label handle adds
StatusAdds(state) == IF state = StatusSuccess THEN ClaYes ELSE ClaNo

(***************************************************************************)
(* Decisions of handleComment.                                             *)
(***************************************************************************)
\* A pattern without its end anchor, ^/check-cla : text may follow the command.
MatchStringNoEndAnchor(body) ==
    \E k \in 1..Len(body) :
        /\ k = 1 \/ body[k - 1] = "n"
        /\ body[k] \in {"c", "C"}

\* checkCLARe, (?mi)^/check-cla\s*$ : the command at the start of a line,
\* followed by white space only up to the end of a line.
MatchString(body) ==
    \E k \in 1..Len(body) :
        /\ k = 1 \/ body[k - 1] = "n"
        /\ body[k] \in {"c", "C"}
        /\ \E j \in k..Len(body) :
              /\ \A m \in (k + 1)..j : body[m] \in {"s", "n"}
              /\ j = Len(body) \/ body[j + 1] = "n"

\* lines 177 and 181
Precondition(ev) ==
    /\ ev.IssueState = "open"
    /\ ev.Action = GenericCommentActionCreated
    /\ MatchString(ev.Body)

\* A scan without the break of line 259: the last entry of the CLA context
\* is the last one acted on.
LastCLA(statuses) ==
    IF \E k \in 1..Len(statuses) : statuses[k].Context = claContextName
    THEN CHOOSE k \in 1..Len(statuses) :
            /\ statuses[k].Context = claContextName
            /\ \A m \in (k + 1)..Len(statuses) :
                  statuses[m].Context # claContextName
    ELSE 0

\* lines 218-221, 259: index of the first entry of the CLA context, 0 if none
FirstCLA(statuses) ==
    IF \E k \in 1..Len(statuses) : statuses[k].Context = claContextName
    THEN CHOOSE k \in 1..Len(statuses) :
            /\ statuses[k].Context = claContextName
            /\ \A m \in 1..(k - 1) : statuses[m].Context # claContextName
    ELSE 0

\* lines 224-231 and 241-248: the labels handleComment removes
CommentRemoves(y, n, state) ==
    IF state = StatusSuccess THEN (IF n THEN {ClaNo} ELSE {})
    ELSE IF state = StatusFailure THEN (IF y THEN {ClaYes} ELSE {})
    ELSE {}

\* A comment flow that adds the target label without looking at the flags,
\* as the status flow does.
CommentAddsUnconditional(y, n, state) ==
    IF state = StatusSuccess THEN {ClaYes}
    ELSE IF state = StatusFailure THEN {ClaNo}
    ELSE {}

\* A comment flow that takes every verdict but success for a failure.
CommentAddsElseFailure(y, n, state) ==
    IF state = StatusSuccess THEN (IF ~y THEN {ClaYes} ELSE {})
    ELSE IF state # "" THEN (IF ~n THEN {ClaNo} ELSE {})
    ELSE {}

\* lines 233-238 and 250-255: the labels handleComment adds
CommentAdds(y, n, state) ==
    IF state = StatusSuccess THEN (IF ~y THEN {ClaYes} ELSE {})
    ELSE IF state = StatusFailure THEN (IF ~n THEN {ClaNo} ELSE {})
    ELSE {}

\* The verdict the scan of line 218 acts on; "" when there is no CLA entry.
Verdict(statuses) ==
    IF FirstCLA(statuses) = 0 THEN "" ELSE statuses[FirstCLA(statuses)].State

(***************************************************************************)
(* Initial state: any labels and head commits, no invocation running.      *)
(***************************************************************************)
Init ==
    /\ labels \in [PRs -> SUBSET Labels]
    /\ head \in [PRs -> SHAs]
    /\ pc = [p \in Procs |-> "idle"]
    /\ se = [p \in Procs |-> NoEvent]
    /\ e = [p \in Procs |-> NoComment]
    /\ i = [p \in Procs |-> 0]
    /\ issues = [p \in Procs |-> <<>>]
    /\ idx = [p \in Procs |-> 0]
    /\ hasYes = [p \in Procs |-> FALSE]
    /\ hasNo = [p \in Procs |-> FALSE]
    /\ ref = [p \in Procs |-> ""]
    /\ combined = [p \in Procs |-> <<>>]
    /\ calls = [p \in Procs |-> <<>>]
    /\ ret = [p \in Procs |-> "none"]


(***************************************************************************)
(* What an invocation does to its own state.                               *)
(***************************************************************************)
Log(p, c) == calls' = [calls EXCEPT ![p] = Append(@, c)]

Goto(p, where) == pc' = [pc EXCEPT ![p] = where]

Return(p, value) ==
    /\ pc' = [pc EXCEPT ![p] = "done"]
    /\ ret' = [ret EXCEPT ![p] = value]

\* The issue the range loop of line 116 is at.
Issue(p) == issues[p][idx[p]]

\* github.Issue values of a search answer: each carries the labels of the
\* pull request as they are when the search is answered.
Snapshot(found) ==
    [k \in 1..Len(found) |-> [Number |-> found[k], Labels |-> labels[found[k]]]]

(***************************************************************************)
(* handle (lines 83-169).                                                  *)
(***************************************************************************)
\* lines 83-100: the checks of the event
StartStatus(p, ev) ==
    /\ pc[p] = "idle"
    /\ se' = [se EXCEPT ![p] = ev]
    /\ IF InvalidEvent(ev) THEN Return(p, "error")
       ELSE IF Ignored(ev) THEN Return(p, "nil")
       ELSE Goto(p, "s_search") /\ UNCHANGED ret
    /\ UNCHANGED <<labels, head, e, i, issues, idx, hasYes, hasNo, ref,
                   combined, calls>>

\* A search loop that does not count its attempts.
FindIssuesUncounted(p) ==
    /\ pc[p] = "s_search"
    /\ \/ /\ Log(p, Call("FindIssues", 0, "", FALSE))
          /\ Return(p, "error")
          /\ UNCHANGED <<issues, idx>>
       \/ \E found \in IssueLists :
             /\ Log(p, Call("FindIssues", Len(found), "", TRUE))
             /\ issues' = [issues EXCEPT ![p] = Snapshot(found)]
             /\ IF Found(found)
                THEN Goto(p, "s_loop") /\ idx' = [idx EXCEPT ![p] = 1]
                ELSE UNCHANGED <<pc, idx>>
             /\ UNCHANGED ret
    /\ UNCHANGED <<labels, head, se, e, i, hasYes, hasNo, ref, combined>>

\* lines 104-113: one iteration of the search loop
FindIssues(p) ==
    /\ pc[p] = "s_search"
    /\ \/ /\ Log(p, Call("FindIssues", 0, "", FALSE))
          /\ Return(p, "error")
          /\ UNCHANGED <<i, issues, idx>>
       \/ \E found \in IssueLists :
             /\ Log(p, Call("FindIssues", Len(found), "", TRUE))
             /\ issues' = [issues EXCEPT ![p] = Snapshot(found)]
             /\ IF Found(found)
                THEN Goto(p, "s_loop") /\ idx' = [idx EXCEPT ![p] = 1]
                     /\ UNCHANGED i
                ELSE /\ i' = [i EXCEPT ![p] = @ + 1]
                     /\ IF i[p] + 1 < maxRetries
                        THEN UNCHANGED <<pc, idx>>
                        ELSE Goto(p, "s_loop") /\ idx' = [idx EXCEPT ![p] = 1]
             /\ UNCHANGED ret
    /\ UNCHANGED <<labels, head, se, e, hasYes, hasNo, ref, combined>>

\* lines 116-132 and 168: the head of the range loop
LoopIssue(p) ==
    /\ pc[p] = "s_loop"
    /\ IF idx[p] > Len(issues[p])
       THEN Return(p, "nil") /\ UNCHANGED <<idx, hasYes, hasNo>>
       ELSE LET y == ClaYes \in Issue(p).Labels
                n == ClaNo \in Issue(p).Labels
            IN  /\ hasYes' = [hasYes EXCEPT ![p] = y]
                /\ hasNo' = [hasNo EXCEPT ![p] = n]
                /\ IF UpToDate(y, n, se[p].State)
                   THEN idx' = [idx EXCEPT ![p] = @ + 1] /\ UNCHANGED pc
                   ELSE Goto(p, "s_getpr") /\ UNCHANGED idx
                /\ UNCHANGED ret
    /\ UNCHANGED <<labels, head, se, e, i, issues, ref, combined, calls>>

\* lines 133-145: fetch the pull request and compare its head commit
GetPullRequest(p) ==
    /\ pc[p] = "s_getpr"
    /\ \E ok \in BOOLEAN :
          /\ Log(p, Call("GetPullRequest", Issue(p).Number, "", ok))
          /\ IF ok /\ IsHead(head[Issue(p).Number], se[p].SHA)
             THEN /\ IF StatusRemoves(hasYes[p], hasNo[p], se[p].State) # {}
                     THEN Goto(p, "s_remove")
                     ELSE Goto(p, "s_add")
                  /\ UNCHANGED idx
             ELSE Goto(p, "s_loop") /\ idx' = [idx EXCEPT ![p] = @ + 1]
    /\ UNCHANGED <<labels, head, se, e, i, issues, hasYes, hasNo, ref,
                   combined, ret>>

\* A handler that gives the pull request up when the removal fails.
StatusRemoveLabelGivesUp(p) ==
    /\ pc[p] = "s_remove"
    /\ \E ok \in BOOLEAN :
       \E l \in StatusRemoves(hasYes[p], hasNo[p], se[p].State) :
          /\ Log(p, Call("RemoveLabel", Issue(p).Number, l, ok))
          /\ labels' = IF ok THEN [labels EXCEPT ![Issue(p).Number] = @ \ {l}]
                       ELSE labels
          /\ IF ok THEN Goto(p, "s_add") /\ UNCHANGED idx
             ELSE Goto(p, "s_loop") /\ idx' = [idx EXCEPT ![p] = @ + 1]
    /\ UNCHANGED <<head, se, e, i, issues, hasYes, hasNo, ref, combined, ret>>

\* lines 147-151 and 159-163
StatusRemoveLabel(p) ==
    /\ pc[p] = "s_remove"
    /\ \E ok \in BOOLEAN :
       \E l \in StatusRemoves(hasYes[p], hasNo[p], se[p].State) :
          /\ Log(p, Call("RemoveLabel", Issue(p).Number, l, ok))
          /\ labels' = IF ok THEN [labels EXCEPT ![Issue(p).Number] = @ \ {l}]
                       ELSE labels
    /\ Goto(p, "s_add")
    /\ UNCHANGED <<head, se, e, i, issues, idx, hasYes, hasNo, ref, combined,
                   ret>>

\* lines 152-155 and 164-166
StatusAddLabel(p) ==
    /\ pc[p] = "s_add"
    /\ \E ok \in BOOLEAN :
          LET l == StatusAdds(se[p].State)
          IN  /\ Log(p, Call("AddLabel", Issue(p).Number, l, ok))
              /\ labels' = IF ok
                           THEN [labels EXCEPT ![Issue(p).Number] = @ \cup {l}]
                           ELSE labels
    /\ Goto(p, "s_loop")
    /\ idx' = [idx EXCEPT ![p] = @ + 1]
    /\ UNCHANGED <<head, se, e, i, issues, hasYes, hasNo, ref, combined, ret>>


(***************************************************************************)
(* handleComment (lines 175-263).                                          *)
(***************************************************************************)
\* lines 175-189: the preconditions
StartComment(p, ev) ==
    /\ pc[p] = "idle"
    /\ e' = [e EXCEPT ![p] = ev]
    /\ IF Precondition(ev)
       THEN Goto(p, "c_labels") /\ UNCHANGED ret
       ELSE Return(p, "nil")
    /\ UNCHANGED <<labels, head, se, i, issues, idx, hasYes, hasNo, ref,
                   combined, calls>>

\* lines 192-204: read the labels; an error is logged and the flags stay false
GetIssueLabels(p) ==
    /\ pc[p] = "c_labels"
    /\ \E ok \in BOOLEAN :
          /\ Log(p, Call("GetIssueLabels", e[p].Number, "", ok))
          /\ hasYes' = [hasYes EXCEPT ![p] = ok /\ ClaYes \in labels[e[p].Number]]
          /\ hasNo' = [hasNo EXCEPT ![p] = ok /\ ClaNo \in labels[e[p].Number]]
    /\ Goto(p, "c_getpr")
    /\ UNCHANGED <<labels, head, se, e, i, issues, idx, ref, combined, ret>>

\* lines 206-212: fetch the pull request; an error is logged and pr is used
\* all the same: it is nil (line 212 panics) or an empty value
CommentGetPullRequest(p) ==
    /\ pc[p] = "c_getpr"
    /\ \/ /\ Log(p, Call("GetPullRequest", e[p].Number, "", TRUE))
          /\ ref' = [ref EXCEPT ![p] = head[e[p].Number]]
          /\ Goto(p, "c_status")
          /\ UNCHANGED ret
       \/ /\ Log(p, Call("GetPullRequest", e[p].Number, "", FALSE))
          /\ ref' = [ref EXCEPT ![p] = ""]
          /\ Goto(p, "c_status")
          /\ UNCHANGED ret
       \/ /\ Log(p, Call("GetPullRequest", e[p].Number, "", FALSE))
          /\ Return(p, "panic")
          /\ UNCHANGED ref
    /\ UNCHANGED <<labels, head, se, e, i, issues, idx, hasYes, hasNo, combined>>

\* Where handleComment goes once it holds the statuses (lines 218-261).
AfterStatuses(p, statuses) ==
    IF CommentRemoves(hasYes[p], hasNo[p], Verdict(statuses)) # {}
    THEN Goto(p, "c_remove") /\ UNCHANGED ret
    ELSE IF CommentAdds(hasYes[p], hasNo[p], Verdict(statuses)) # {}
    THEN Goto(p, "c_add") /\ UNCHANGED ret
    ELSE Return(p, "nil")

\* lines 213-221: fetch the combined status; an error is logged and combined
\* is used all the same: it is nil (line 218 panics) or an empty value
GetCombinedStatus(p) ==
    /\ pc[p] = "c_status"
    /\ \/ \E statuses \in StatusLists :
             /\ Log(p, Call("GetCombinedStatus", e[p].Number, "", TRUE))
             /\ combined' = [combined EXCEPT ![p] = statuses]
             /\ AfterStatuses(p, statuses)
       \/ /\ Log(p, Call("GetCombinedStatus", e[p].Number, "", FALSE))
          /\ combined' = [combined EXCEPT ![p] = <<>>]
          /\ AfterStatuses(p, <<>>)
       \/ /\ Log(p, Call("GetCombinedStatus", e[p].Number, "", FALSE))
          /\ Return(p, "panic")
          /\ UNCHANGED combined
    /\ UNCHANGED <<labels, head, se, e, i, issues, idx, hasYes, hasNo, ref>>

\* A handler that adds the target label first and removes the opposite label
\* after it (both calls of lines 227-238, in the other order).
CommentRemoveLabelAfterAdd(p) ==
    /\ pc[p] = "c_remove"
    /\ \E ok \in BOOLEAN :
       \E l \in CommentRemoves(hasYes[p], hasNo[p], Verdict(combined[p])) :
          LET adds == CommentAdds(hasYes[p], hasNo[p], Verdict(combined[p]))
              addCalls == IF adds = {} THEN <<>>
                          ELSE <<Call("AddLabel", e[p].Number,
                                      CHOOSE a \in adds : TRUE, ok)>>
          IN  /\ calls' = [calls EXCEPT ![p] =
                    @ \o addCalls
                      \o <<Call("RemoveLabel", e[p].Number, l, ok)>>]
              /\ labels' = IF ok
                           THEN [labels EXCEPT ![e[p].Number] = (@ \cup adds) \ {l}]
                           ELSE labels
    /\ Return(p, "nil")
    /\ UNCHANGED <<head, se, e, i, issues, idx, hasYes, hasNo, ref, combined>>

\* lines 227-231 and 244-248
CommentRemoveLabel(p) ==
    /\ pc[p] = "c_remove"
    /\ \E ok \in BOOLEAN :
       \E l \in CommentRemoves(hasYes[p], hasNo[p], Verdict(combined[p])) :
          /\ Log(p, Call("RemoveLabel", e[p].Number, l, ok))
          /\ labels' = IF ok THEN [labels EXCEPT ![e[p].Number] = @ \ {l}]
                       ELSE labels
    /\ IF CommentAdds(hasYes[p], hasNo[p], Verdict(combined[p])) # {}
       THEN Goto(p, "c_add") /\ UNCHANGED ret
       ELSE Return(p, "nil")
    /\ UNCHANGED <<head, se, e, i, issues, idx, hasYes, hasNo, ref, combined>>

\* lines 234-238 and 251-255, then 259-262
CommentAddLabel(p) ==
    /\ pc[p] = "c_add"
    /\ \E ok \in BOOLEAN :
       \E l \in CommentAdds(hasYes[p], hasNo[p], Verdict(combined[p])) :
          /\ Log(p, Call("AddLabel", e[p].Number, l, ok))
          /\ labels' = IF ok THEN [labels EXCEPT ![e[p].Number] = @ \cup {l}]
                       ELSE labels
    /\ Return(p, "nil")
    /\ UNCHANGED <<head, se, e, i, issues, idx, hasYes, hasNo, ref, combined>>

\* The handler has returned: the invocation's state is gone, the labels stay.
Finish(p) ==
    /\ pc[p] = "done"
    /\ pc' = [pc EXCEPT ![p] = "idle"]
    /\ se' = [se EXCEPT ![p] = NoEvent]
    /\ e' = [e EXCEPT ![p] = NoComment]
    /\ i' = [i EXCEPT ![p] = 0]
    /\ issues' = [issues EXCEPT ![p] = <<>>]
    /\ idx' = [idx EXCEPT ![p] = 0]
    /\ hasYes' = [hasYes EXCEPT ![p] = FALSE]
    /\ hasNo' = [hasNo EXCEPT ![p] = FALSE]
    /\ ref' = [ref EXCEPT ![p] = ""]
    /\ combined' = [combined EXCEPT ![p] = <<>>]
    /\ calls' = [calls EXCEPT ![p] = <<>>]
    /\ ret' = [ret EXCEPT ![p] = "none"]
    /\ UNCHANGED <<labels, head>>

\* One step of invocation p.
Step(p) ==
    \/ \E ev \in StatusEvents : StartStatus(p, ev)
    \/ FindIssues(p)
    \/ LoopIssue(p)
    \/ GetPullRequest(p)
    \/ StatusRemoveLabel(p)
    \/ StatusAddLabel(p)
    \/ \E ev \in CommentEvents : StartComment(p, ev)
    \/ GetIssueLabels(p)
    \/ CommentGetPullRequest(p)
    \/ GetCombinedStatus(p)
    \/ CommentRemoveLabel(p)
    \/ CommentAddLabel(p)
    \/ Finish(p)

\* Invocations one after the other.
Next == \E p \in SeqProcs : Step(p)

Spec == Init /\ [][Next]_vars


(***************************************************************************)
(* Vocabulary of the properties.                                           *)
(***************************************************************************)
IsStatus(p) == se[p] # NoEvent
IsComment(p) == e[p] # NoComment
Terminal == {StatusSuccess, StatusFailure, StatusError}
Target(state) == IF state = StatusSuccess THEN {ClaYes} ELSE {ClaNo}
AllOk(p) == \A k \in 1..Len(calls[p]) : calls[p][k].ok
CallsOf(p, ops) == {k \in 1..Len(calls[p]) : calls[p][k].op \in ops}
MutationOps == {"AddLabel", "RemoveLabel"}
FetchOps == {"GetIssueLabels", "GetPullRequest", "GetCombinedStatus"}
\* The label calls p issued for pull request n, as <<method, label>> pairs.
LabelCalls(p, n) ==
    {<<calls[p][k].op, calls[p][k].label>> :
        k \in {m \in CallsOf(p, MutationOps) : calls[p][m].num = n}}
\* p fetched pull request n successfully.
Fetched(p, n) ==
    \E k \in CallsOf(p, {"GetPullRequest"}) : calls[p][k].num = n /\ calls[p][k].ok
\* The label calls the transition table asks for: success removes the negative
\* label if present and adds the positive one if absent; failure the reverse.
TableCalls(y, n, state) ==
    IF state = StatusSuccess
    THEN (IF n THEN {<<"RemoveLabel", ClaNo>>} ELSE {})
         \cup (IF y THEN {} ELSE {<<"AddLabel", ClaYes>>})
    ELSE (IF y THEN {<<"RemoveLabel", ClaYes>>} ELSE {})
         \cup (IF n THEN {} ELSE {<<"AddLabel", ClaNo>>})

(***************************************************************************)
(* C1. Status flow self-healing: when a status event of the CLA context    *)
(* with a terminal verdict has been handled and every external call        *)
(* succeeded, every matched pull request whose head is the event's commit  *)
(* carries exactly the target label (success: positive only; failure or    *)
(* error: negative only), whatever labels it started with.                 *)
(***************************************************************************)
C1_StatusSelfHealing ==
    \A p \in Procs :
        (/\ pc[p] = "done" /\ IsStatus(p)
         /\ se[p].Context = claContextName /\ se[p].State \in Terminal
         /\ AllOk(p))
        => \A k \in 1..Len(issues[p]) :
              head[issues[p][k].Number] = se[p].SHA
              => labels[issues[p][k].Number] = Target(se[p].State)


(***************************************************************************)
(* C2. Comment flow transition table: the flags are those of the pull      *)
(* request's labels when the labels were read, and for a CLA entry with    *)
(* verdict success or failure the label calls issued are exactly:          *)
(* success: RemoveLabel(negative) iff hasNegative, AddLabel(positive) iff  *)
(* not hasPositive; failure: RemoveLabel(positive) iff hasPositive,        *)
(* AddLabel(negative) iff not hasNegative; each at most once, and none for *)
(* any other pull request.                                                 *)
(***************************************************************************)
C2_CommentTransitionTable ==
    \A p \in Procs :
        /\ (pc[p] = "c_getpr" /\ calls[p][1].ok)
           => /\ hasYes[p] = (ClaYes \in labels[e[p].Number])
              /\ hasNo[p] = (ClaNo \in labels[e[p].Number])
        /\ (/\ pc[p] = "done" /\ IsComment(p) /\ ret[p] = "nil"
            /\ Verdict(combined[p]) \in {StatusSuccess, StatusFailure})
           => /\ LabelCalls(p, e[p].Number)
                    = TableCalls(hasYes[p], hasNo[p], Verdict(combined[p]))
              /\ Cardinality(CallsOf(p, MutationOps))
                    = Cardinality(LabelCalls(p, e[p].Number))
              /\ \A n \in PRs \ {e[p].Number} : LabelCalls(p, n) = {}

\* negative label only, verdict success: both calls are issued and succeed
C2_Witness ==
    \E p \in Procs :
        /\ pc[p] = "done" /\ IsComment(p) /\ ret[p] = "nil" /\ AllOk(p)
        /\ ~hasYes[p] /\ hasNo[p]
        /\ Verdict(combined[p]) = StatusSuccess
        /\ LabelCalls(p, e[p].Number)
              = {<<"RemoveLabel", ClaNo>>, <<"AddLabel", ClaYes>>}
        /\ labels[e[p].Number] = {ClaYes}

(***************************************************************************)
(* C3. Verdict error is treated as verdict failure in both flows: a status *)
(* event with state error, and a comment whose CLA entry has state error,  *)
(* issue the label calls the same input issues with state failure.         *)
(***************************************************************************)
C3_ErrorAsFailure ==
    \A p \in Procs :
        /\ (/\ pc[p] = "done" /\ IsStatus(p) /\ ret[p] = "nil"
            /\ se[p].Context = claContextName /\ se[p].State = StatusError)
           => \A k \in 1..Len(issues[p]) :
                 LET is == issues[p][k]
                     y == ClaYes \in is.Labels
                     n == ClaNo \in is.Labels
                 IN  LabelCalls(p, is.Number)
                       = IF \/ UpToDate(y, n, StatusFailure)
                            \/ ~Fetched(p, is.Number)
                            \/ head[is.Number] # se[p].SHA
                         THEN {}
                         ELSE {<<"RemoveLabel", l>> :
                                  l \in StatusRemoves(y, n, StatusFailure)}
                              \cup {<<"AddLabel", StatusAdds(StatusFailure)>>}
        /\ (/\ pc[p] = "done" /\ IsComment(p) /\ ret[p] = "nil"
            /\ Verdict(combined[p]) = StatusError)
           => LabelCalls(p, e[p].Number)
                 = {<<"RemoveLabel", l>> :
                       l \in CommentRemoves(hasYes[p], hasNo[p], StatusFailure)}
                   \cup {<<"AddLabel", l>> :
                       l \in CommentAdds(hasYes[p], hasNo[p], StatusFailure)}

(***************************************************************************)
(* C4. Staleness guard: the status flow never issues an AddLabel or        *)
(* RemoveLabel call for a pull request whose head commit differs from the  *)
(* event's commit, whatever the verdict and the labels.                    *)
(***************************************************************************)
C4_StalenessGuard ==
    \A p \in Procs :
        IsStatus(p)
        => \A n \in PRs : head[n] # se[p].SHA => LabelCalls(p, n) = {}

\* a stale candidate was fetched and skipped, another candidate was labelled
C4_Witness ==
    \E p \in Procs :
        /\ pc[p] = "done" /\ IsStatus(p)
        /\ \E n \in PRs :
              /\ head[n] # se[p].SHA
              /\ Fetched(p, n)
              /\ LabelCalls(p, n) = {}
        /\ \E n \in PRs : LabelCalls(p, n) # {}

(***************************************************************************)
(* C5. Comment flow fetch failure: when GetIssueLabels, GetPullRequest or  *)
(* GetCombinedStatus fails, the event's processing stops there: the failed *)
(* call is the last external call of the invocation, and the handler does  *)
(* not crash.                                                              *)
(***************************************************************************)
C5_FetchFailureStops ==
    \A p \in Procs :
        IsComment(p)
        => /\ ret[p] # "panic"
           /\ \A k \in CallsOf(p, FetchOps) :
                 ~calls[p][k].ok => k = Len(calls[p])

(***************************************************************************)
(* C6. Status handler error outcomes, as claimed: the handler returns an   *)
(* error if and only if the verdict state or the context name is empty.    *)
(***************************************************************************)
C6_ErrorIffEmpty ==
    \A p \in Procs :
        (pc[p] = "done" /\ IsStatus(p))
        => (ret[p] = "error" <=> (se[p].State = "" \/ se[p].Context = ""))

(***************************************************************************)
(* C6, amended. The status handler returns an error if and only if the     *)
(* verdict state or the context name is empty or a FindIssues call failed; *)
(* otherwise it returns nil, so a failed GetPullRequest, AddLabel or       *)
(* RemoveLabel never makes it return an error.                             *)
(***************************************************************************)
C6_ErrorIffEmptyOrSearchFailed ==
    \A p \in Procs :
        (pc[p] = "done" /\ IsStatus(p))
        => /\ ret[p] \in {"nil", "error"}
           /\ ret[p] = "error"
                 <=> \/ se[p].State = "" \/ se[p].Context = ""
                     \/ \E k \in CallsOf(p, {"FindIssues"}) : ~calls[p][k].ok

\* a fetch, a remove and an add failed and the handler returned nil
C6_Witness ==
    \E p \in Procs :
        /\ pc[p] = "done" /\ IsStatus(p) /\ ret[p] = "nil"
        /\ \A op \in {"GetPullRequest", "RemoveLabel", "AddLabel"} :
              \E k \in CallsOf(p, {op}) : ~calls[p][k].ok

(***************************************************************************)
(* C7. Idempotence: when the pull request's labels already are the target  *)
(* of the verdict (positive only with success, negative only with failure) *)
(* the invocation issues no AddLabel and no RemoveLabel call. For the      *)
(* status flow the labels are those of the matched issue; for the comment  *)
(* flow: a handler about to issue its first label call is never looking at *)
(* a pull request that already carries exactly the target label.           *)
(***************************************************************************)
C7_Idempotence ==
    \A p \in Procs :
        /\ (IsStatus(p) /\ se[p].State \in {StatusSuccess, StatusFailure})
           => \A k \in 1..Len(issues[p]) :
                 issues[p][k].Labels = Target(se[p].State)
                 => LabelCalls(p, issues[p][k].Number) = {}
        /\ (/\ IsComment(p) /\ pc[p] \in {"c_remove", "c_add"}
            /\ LabelCalls(p, e[p].Number) = {}
            /\ Verdict(combined[p]) \in {StatusSuccess, StatusFailure})
           => labels[e[p].Number] # Target(Verdict(combined[p]))

(***************************************************************************)
(* C8. Pending never mutates: a status event with verdict pending makes no *)
(* external call at all, and a comment whose CLA entry is pending issues   *)
(* no AddLabel and no RemoveLabel call, whatever the labels.               *)
(***************************************************************************)
C8_PendingNeverMutates ==
    \A p \in Procs :
        /\ (IsStatus(p) /\ se[p].State = StatusPending) => calls[p] = <<>>
        /\ (IsComment(p) /\ Verdict(combined[p]) = StatusPending)
           => CallsOf(p, MutationOps) = {}

\* a comment on a pull request with both labels, the CLA entry pending
C8_Witness ==
    \E p \in Procs :
        /\ pc[p] = "done" /\ IsComment(p) /\ ret[p] = "nil" /\ AllOk(p)
        /\ Verdict(combined[p]) = StatusPending
        /\ hasYes[p] /\ hasNo[p]
        /\ Len(calls[p]) = 3

(***************************************************************************)
(* C9. Search retry bound: no invocation makes more than 5 FindIssues      *)
(* calls; when every FindIssues call answers zero matches without error,   *)
(* the handler makes exactly 5 of them, no other call, and returns nil.    *)
(***************************************************************************)
C9_SearchRetryBound ==
    \A p \in Procs :
        /\ Cardinality(CallsOf(p, {"FindIssues"})) <= 5
        /\ (/\ pc[p] = "done" /\ IsStatus(p)
            /\ se[p].Context = claContextName /\ se[p].State \in Terminal
            /\ \A k \in CallsOf(p, {"FindIssues"}) :
                  calls[p][k].ok /\ calls[p][k].num = 0)
           => /\ Cardinality(CallsOf(p, {"FindIssues"})) = 5
              /\ Len(calls[p]) = 5
              /\ ret[p] = "nil"

\* five empty answers, then the handler returned nil
C9_Witness ==
    \E p \in Procs :
        /\ pc[p] = "done" /\ IsStatus(p) /\ ret[p] = "nil"
        /\ Len(calls[p]) = 5
        /\ \A k \in 1..5 :
              /\ calls[p][k].op = "FindIssues"
              /\ calls[p][k].ok /\ calls[p][k].num = 0

(***************************************************************************)
(* C10. Early termination of the search: a FindIssues call that answers at *)
(* least one match is the last one of the invocation; a match on attempt k *)
(* means exactly k search calls.                                           *)
(***************************************************************************)
C10_EarlyTermination ==
    \A p \in Procs :
        \A k \in CallsOf(p, {"FindIssues"}) :
            (calls[p][k].ok /\ calls[p][k].num > 0)
            => CallsOf(p, {"FindIssues"}) = 1..k

\* a match on the third attempt, and the handler went on to label
C10_Witness ==
    \E p \in Procs :
        /\ pc[p] = "done" /\ IsStatus(p)
        /\ Len(calls[p]) > 3
        /\ calls[p][3].op = "FindIssues" /\ calls[p][3].num > 0
        /\ Cardinality(CallsOf(p, {"FindIssues"})) = 3
        /\ CallsOf(p, MutationOps) # {}


(***************************************************************************)
(* C11. Context filtering, as claimed: a status event whose non-empty      *)
(* context differs from the CLA context makes no external call and returns *)
(* no error; a comment on a pull request whose combined status holds no    *)
(* entry of the CLA context issues no AddLabel or RemoveLabel call and     *)
(* returns no error.                                                       *)
(***************************************************************************)
C11_ContextFiltering ==
    \A p \in Procs :
        /\ (IsStatus(p) /\ se[p].Context \notin {"", claContextName})
           => calls[p] = <<>> /\ pc[p] = "done" /\ ret[p] = "nil"
        /\ (/\ IsComment(p)
            /\ \E k \in CallsOf(p, {"GetCombinedStatus"}) : calls[p][k].ok
            /\ \A k \in 1..Len(combined[p]) :
                  combined[p][k].Context # claContextName)
           => CallsOf(p, MutationOps) = {} /\ pc[p] = "done" /\ ret[p] = "nil"

(***************************************************************************)
(* C11, amended. A status event whose verdict state is not empty and whose *)
(* non-empty context differs from the CLA context makes no external call   *)
(* and returns no error; the comment half is as claimed.                   *)
(***************************************************************************)
C11_ContextFilteringNonEmptyState ==
    \A p \in Procs :
        /\ (/\ IsStatus(p) /\ se[p].State # ""
            /\ se[p].Context \notin {"", claContextName})
           => calls[p] = <<>> /\ pc[p] = "done" /\ ret[p] = "nil"
        /\ (/\ IsComment(p)
            /\ \E k \in CallsOf(p, {"GetCombinedStatus"}) : calls[p][k].ok
            /\ \A k \in 1..Len(combined[p]) :
                  combined[p][k].Context # claContextName)
           => CallsOf(p, MutationOps) = {} /\ pc[p] = "done" /\ ret[p] = "nil"

\* a comment on a pull request with the negative label whose combined status
\* holds two entries of another context, one of them a success
C11_Witness ==
    \E p \in Procs :
        /\ pc[p] = "done" /\ IsComment(p) /\ AllOk(p)
        /\ Len(combined[p]) = 2
        /\ \A k \in 1..2 : combined[p][k].Context = "other"
        /\ combined[p][1].State = StatusSuccess
        /\ hasNo[p] /\ ~hasYes[p]
        /\ labels[e[p].Number] = {ClaNo}

(***************************************************************************)
(* C12. Malformed status event: when the verdict state or the context name *)
(* is empty, the status handler returns an error and makes no external     *)
(* call at all.                                                            *)
(***************************************************************************)
C12_MalformedEvent ==
    \A p \in Procs :
        (IsStatus(p) /\ (se[p].State = "" \/ se[p].Context = ""))
        => pc[p] = "done" /\ ret[p] = "error" /\ calls[p] = <<>>

\* a success event with an empty context was refused
C12_Witness ==
    \E p \in Procs :
        /\ pc[p] = "done" /\ IsStatus(p)
        /\ se[p].State = StatusSuccess /\ se[p].Context = ""
        /\ ret[p] = "error" /\ calls[p] = <<>>


(***************************************************************************)
(* C13. Failure isolation in the status flow: every RemoveLabel call,      *)
(* failed or not, is followed by the AddLabel call for the same pull       *)
(* request; when the handler has returned nil every candidate of the       *)
(* search answer was handled (skipped as up to date, or fetched, and       *)
(* labelled when the fetch succeeded and the commit is its head), whatever *)
(* failed for the candidates before it; and no call is issued twice for    *)
(* the same pull request and label.                                        *)
(***************************************************************************)
C13_FailureIsolation ==
    \A p \in Procs :
        IsStatus(p)
        => /\ \A k \in CallsOf(p, {"RemoveLabel"}) :
                 IF k < Len(calls[p])
                 THEN /\ calls[p][k + 1].op = "AddLabel"
                      /\ calls[p][k + 1].num = calls[p][k].num
                 ELSE pc[p] = "s_add"
           /\ (pc[p] = "done" /\ ret[p] = "nil")
              => \A k \in 1..Len(issues[p]) :
                    LET is == issues[p][k]
                    IN  \/ UpToDate(ClaYes \in is.Labels, ClaNo \in is.Labels,
                                    se[p].State)
                        \/ /\ \E c \in CallsOf(p, {"GetPullRequest"}) :
                                 calls[p][c].num = is.Number
                           /\ (Fetched(p, is.Number)
                               /\ head[is.Number] = se[p].SHA)
                              => <<"AddLabel", Target(se[p].State)>>
                                    \in {<<x[1], {x[2]}>> :
                                            x \in LabelCalls(p, is.Number)}
           /\ \A k \in 1..Len(calls[p]) : \A m \in 1..Len(calls[p]) :
                 (/\ k # m
                  /\ calls[p][k].op \in MutationOps \cup {"GetPullRequest"}
                  /\ calls[p][k].op = calls[p][m].op
                  /\ calls[p][k].label = calls[p][m].label)
                 => calls[p][k].num # calls[p][m].num

\* the fetch of the first candidate failed; for the second candidate the
\* removal failed and the label was added all the same
C13_Witness ==
    \E p \in Procs :
        /\ pc[p] = "done" /\ IsStatus(p) /\ ret[p] = "nil"
        /\ Len(issues[p]) = 2
        /\ \E k \in CallsOf(p, {"GetPullRequest"}) :
              calls[p][k].num = issues[p][1].Number /\ ~calls[p][k].ok
        /\ \E k \in CallsOf(p, {"RemoveLabel"}) :
              /\ calls[p][k].num = issues[p][2].Number /\ ~calls[p][k].ok
              /\ k < Len(calls[p])
              /\ calls[p][k + 1].op = "AddLabel" /\ calls[p][k + 1].ok


\* The body holds a line made of the command alone, blanks around it allowed.
OwnLine(body) ==
    \E a \in 1..Len(body) : \E b \in a..Len(body) :
        /\ a = 1 \/ body[a - 1] = "n"
        /\ b = Len(body) \/ body[b + 1] = "n"
        /\ \E k \in a..b :
              /\ body[k] \in {"c", "C"}
              /\ \A m \in (a..b) \ {k} : body[m] = "s"

(***************************************************************************)
(* C14. Comment preconditions: unless the pull request is open, the        *)
(* comment action is "created" and the body holds the /check-cla command   *)
(* on a line of its own, the comment handler makes no external call and    *)
(* returns no error.                                                       *)
(***************************************************************************)
C14_CommentPreconditions ==
    \A p \in Procs :
        (/\ IsComment(p)
         /\ ~(/\ e[p].IssueState = "open"
              /\ e[p].Action = "created"
              /\ OwnLine(e[p].Body)))
        => calls[p] = <<>> /\ pc[p] = "done" /\ ret[p] = "nil"

\* a new comment on an open pull request, text after the command on its line
C14_Witness ==
    \E p \in Procs :
        /\ pc[p] = "done" /\ IsComment(p)
        /\ e[p].IssueState = "open" /\ e[p].Action = "created"
        /\ e[p].Body = <<"c", "x">>
        /\ calls[p] = <<>> /\ ret[p] = "nil"


\* The positions of the entries of the CLA context in a combined status.
CLAEntries(statuses) ==
    {k \in 1..Len(statuses) : statuses[k].Context = claContextName}

(***************************************************************************)
(* C16. First match wins in the comment flow: the label calls are those of *)
(* the transition table for the verdict of the first entry of the CLA      *)
(* context (none when that verdict is neither success nor failure),        *)
(* whatever entries follow it.                                             *)
(***************************************************************************)
C16_FirstMatchWins ==
    \A p \in Procs :
        (/\ pc[p] = "done" /\ IsComment(p) /\ ret[p] = "nil"
         /\ CLAEntries(combined[p]) # {})
        => LET first == CHOOSE k \in CLAEntries(combined[p]) :
                           \A m \in CLAEntries(combined[p]) : k <= m
               st == combined[p][first].State
           IN  LabelCalls(p, e[p].Number)
                 = IF st \in {StatusSuccess, StatusFailure}
                   THEN TableCalls(hasYes[p], hasNo[p], st)
                   ELSE {}

\* a failure entry followed by a success entry: the negative label is added
C16_Witness ==
    \E p \in Procs :
        /\ pc[p] = "done" /\ IsComment(p) /\ ret[p] = "nil" /\ AllOk(p)
        /\ combined[p] = <<[Context |-> claContextName, State |-> StatusFailure],
                           [Context |-> claContextName, State |-> StatusSuccess]>>
        /\ LabelCalls(p, e[p].Number) = {<<"AddLabel", ClaNo>>}
        /\ labels[e[p].Number] = {ClaNo}


(***************************************************************************)
(* Normal operation: every pull request starts with at most one of the two *)
(* labels, invocations run one after the other, and every external call    *)
(* succeeds.                                                               *)
(***************************************************************************)
InitOne == Init /\ \A n \in PRs : labels[n] # Labels

\* The step leaves a log of successful calls only.
Succeeds(p) == \A k \in 1..Len(calls'[p]) : calls'[p][k].ok

NextOk ==
    \E p \in SeqProcs :
        \/ \E ev \in StatusEvents : StartStatus(p, ev)
        \/ FindIssues(p) /\ Succeeds(p)
        \/ LoopIssue(p)
        \/ GetPullRequest(p) /\ Succeeds(p)
        \/ StatusRemoveLabel(p) /\ Succeeds(p)
        \/ StatusAddLabel(p) /\ Succeeds(p)
        \/ \E ev \in CommentEvents : StartComment(p, ev)
        \/ GetIssueLabels(p) /\ Succeeds(p)
        \/ CommentGetPullRequest(p) /\ Succeeds(p)
        \/ GetCombinedStatus(p) /\ Succeeds(p)
        \/ CommentRemoveLabel(p) /\ Succeeds(p)
        \/ CommentAddLabel(p) /\ Succeeds(p)
        \/ Finish(p)

SpecOk == InitOne /\ [][NextOk]_vars

(***************************************************************************)
(* C15. Label exclusivity under normal operation: at the end of every      *)
(* invocation of a sequence of status and comment invocations whose calls  *)
(* all succeed, started with at most one label on each pull request, no    *)
(* pull request carries both labels.                                       *)
(***************************************************************************)
C15_LabelExclusivity ==
    \A p \in Procs :
        pc[p] = "done" => \A n \in PRs : labels[n] # Labels

\* a failure event has turned a positive label into a negative one
C15_Witness ==
    \E p \in Procs :
        /\ pc[p] = "done" /\ IsStatus(p) /\ se[p].State = StatusFailure
        /\ \E n \in PRs :
              /\ LabelCalls(p, n)
                    = {<<"RemoveLabel", ClaYes>>, <<"AddLabel", ClaNo>>}
              /\ labels[n] = {ClaNo}

(***************************************************************************)
(* C18. Remove before add: within one invocation of either flow the        *)
(* RemoveLabel call for a pull request comes before the AddLabel call for  *)
(* it, so when the calls succeed and the pull request started with at most *)
(* one label, no state, intermediate ones included, has both labels on it. *)
(***************************************************************************)
C18_RemoveBeforeAdd ==
    /\ \A p \in Procs :
          \A k \in CallsOf(p, {"RemoveLabel"}) :
          \A m \in CallsOf(p, {"AddLabel"}) :
              calls[p][k].num = calls[p][m].num => k < m
    /\ \A n \in PRs : labels[n] # Labels

\* between the two calls: the opposite label is gone, the target not yet there
C18_Witness ==
    \E p \in Procs :
        /\ pc[p] \in {"s_add", "c_add"}
        /\ calls[p][Len(calls[p])].op = "RemoveLabel"
        /\ labels[calls[p][Len(calls[p])].num] = {}


(***************************************************************************)
(* Two invocations at once for pull request 1, each run once: the handlers *)
(* share no state but the labels held by the service, and their calls      *)
(* interleave in any order. Every call succeeds and each pull request      *)
(* starts with at most one label. Both events pass the entry checks of     *)
(* their handler, the search finds pull request 1 at its first attempt and *)
(* the combined status holds at most one entry, of the CLA context.        *)
(***************************************************************************)
InitConc == InitOne /\ labels[2] = {} /\ head[2] = "a"

\* The event is not dropped by the checks of lines 84-96 and 177-183, and a
\* comment is the plain command on pull request 1.
Handled(p) ==
    /\ pc'[p] # "done"
    /\ e'[p] \in {NoComment,
                  [IssueState |-> "open", Action |-> "created",
                   Body |-> <<"c">>, Number |-> 1]}

\* The search answers pull request 1 alone.
FindsPR1(p) == Len(issues'[p]) = 1 /\ issues'[p][1].Number = 1

\* The combined status holds at most one entry, of the CLA context.
OneEntry(p) ==
    /\ Len(combined'[p]) <= 1
    /\ \A k \in 1..Len(combined'[p]) : combined'[p][k].Context = claContextName

NextConc ==
    \E p \in Procs :
        \/ (\E ev \in StatusEvents : StartStatus(p, ev)) /\ Handled(p)
        \/ FindIssues(p) /\ Succeeds(p) /\ FindsPR1(p)
        \/ LoopIssue(p)
        \/ GetPullRequest(p) /\ Succeeds(p)
        \/ StatusRemoveLabel(p) /\ Succeeds(p)
        \/ StatusAddLabel(p) /\ Succeeds(p)
        \/ (\E ev \in CommentEvents : StartComment(p, ev)) /\ Handled(p)
        \/ GetIssueLabels(p) /\ Succeeds(p)
        \/ CommentGetPullRequest(p) /\ Succeeds(p)
        \/ GetCombinedStatus(p) /\ Succeeds(p) /\ OneEntry(p)
        \/ CommentRemoveLabel(p) /\ Succeeds(p)
        \/ CommentAddLabel(p) /\ Succeeds(p)

SpecConc == InitConc /\ [][NextConc]_vars

(***************************************************************************)
(* C17. Concurrent invocations: when two invocations for the same pull     *)
(* request run concurrently, every call succeeds and the pull request      *)
(* starts with at most one label, it does not carry both labels once both  *)
(* invocations have completed.                                             *)
(***************************************************************************)
C17_ConcurrentExclusivity ==
    (\A p \in Procs : pc[p] = "done") => \A n \in PRs : labels[n] # Labels


(***************************************************************************)
(* The status handler keeps running once started: each of its steps is     *)
(* taken when it can be (the goroutine is scheduled, time.Sleep and the    *)
(* client calls return).                                                   *)
(***************************************************************************)
StatusPcs == {"s_search", "s_loop", "s_getpr", "s_remove", "s_add"}

Running ==
    \E p \in SeqProcs :
        \/ FindIssues(p)
        \/ LoopIssue(p)
        \/ GetPullRequest(p)
        \/ StatusRemoveLabel(p)
        \/ StatusAddLabel(p)

SpecFair == Init /\ [][Next]_vars /\ WF_vars(Running)

\* The calls of method op that p issued for pull request n.
CallsFor(p, op, n) == {k \in CallsOf(p, {op}) : calls[p][k].num = n}

\* At most 5 searches; at most one fetch, one removal and one addition for
\* each pull request; a handler that returned nil went through the whole
\* search answer.
C19_Bounded ==
    \A p \in Procs :
        IsStatus(p)
        => /\ Cardinality(CallsOf(p, {"FindIssues"})) <= 5
           /\ \A n \in PRs :
              \A op \in {"GetPullRequest", "RemoveLabel", "AddLabel"} :
                 Cardinality(CallsFor(p, op, n)) <= 1
           /\ (pc[p] = "done" /\ ret[p] = "nil" /\ calls[p] # <<>>)
              => idx[p] = Len(issues[p]) + 1

(***************************************************************************)
(* C19. Termination: every invocation of the status handler completes,     *)
(* whatever the client answers (empty, non-empty or failing searches,      *)
(* failing or succeeding fetches and label calls), after at most 5 search  *)
(* attempts and one pass over the candidates, with at most one             *)
(* GetPullRequest, one RemoveLabel and one AddLabel call for each.         *)
(***************************************************************************)
C19_Termination ==
    /\ []C19_Bounded
    /\ \A p \in SeqProcs : (pc[p] \in StatusPcs) ~> (pc[p] = "done")

\* four empty answers, a fifth with two candidates, both labelled: 11 calls
C19_Witness ==
    \E p \in Procs :
        /\ pc[p] = "done" /\ IsStatus(p) /\ ret[p] = "nil"
        /\ Cardinality(CallsOf(p, {"FindIssues"})) = 5
        /\ Len(issues[p]) = 2
        /\ Len(calls[p]) = 11

====
